---- MODULE Spec2Model ----
(***************************************************************************)
(* Kernel-CPU support runtime (artiq/firmware/ksupport/lib.rs): the        *)
(* mailbox rendezvous with the comms CPU, the RPC client with its async    *)
(* queue, the DMA recorder and the exit sequence of main.                  *)
(*                                                                         *)
(* The kernel CPU is one thread of control.  kpc is its position:          *)
(*   "prog"  the loaded program runs and may call any exposed entry point, *)
(*   "send"  inside send(): the message is published and the kernel        *)
(*           busy-polls mailbox::acknowledged(); kcont names the code that *)
(*           runs once the poll succeeds,                                  *)
(*   "rpc_send", "rpc_send_async", "rpc_send_async_fallback"               *)
(*           the busy-wait loops on the async RPC queue,                   *)
(*   "writeback" inside attribute_writeback, "halt" the final loop {}.     *)
(* The comms CPU (host) is the environment: it takes messages out of the   *)
(* mailbox and calls out of the async queue.                               *)
(***************************************************************************)
EXTENDS Integers, Sequences, FiniteSets, TLC

\* ------------------------------------------------------------------ bounds
\* Entry-point calls the program makes in one run.
MaxOps == 6
\* Capacity of the recorder buffer in bytes.  The source has 64 * 1024; the
\* model scales it down (it stays at least one maximal record, 77 bytes) so
\* that a flush happens within MaxOps outputs.
DMA_BUFFER_SIZE == 80
\* Slots of the async RPC queue.
QueueSlots == 2

\* --------------------------------------------------------------- constants
HEADER_LENGTH == 13
MAX_WIDE_WORDS == 16

VARIABLES
    kpc,          \* kernel position
    kcont,        \* continuation of the pending send()
    kcall,        \* locals of the entry point in progress
    kres,         \* history: the last entry point called and how it ended
    nops,         \* history: number of entry-point calls so far
    mailbox,      \* the single mailbox slot
    DMA_RECORDER, \* [active, data_len, buffer]
    rebound,      \* TRUE while rtio_output(_wide) is rebound to the recorder
    sent,         \* history: messages the kernel has published, in order
    hostObs,      \* history: messages the host has taken out of the mailbox
    recorded,     \* history: (target, timestamp, words) written since start
    rpcq,         \* the async RPC queue: calls enqueued and not yet dequeued
    kret,         \* caller of rpc_send_async: "prog" or "writeback"
    typeinfo,     \* the image's typeinfo table (<<>> when it exports none)
    wb,           \* attribute_writeback: index of the next attribute visit
    posted,       \* history: RPC calls in submission order
    hostRpc,      \* history: RPC calls in the order the host obtained them
    kval,         \* history: value returned / parameters raised by the last call
    rcvd,         \* history: messages the kernel has taken out of the mailbox
    hostSent,     \* history: messages the host has published, in order
    rtio_dma,     \* the DMA controller's registers: [enable, error, ...]
    cfg           \* build configuration: which dma_playback is compiled in

dmaVars == <<DMA_RECORDER, rebound, recorded>>
rpcVars == <<rpcq, kret, typeinfo, wb, posted, hostRpc>>
reqVars == <<kval, rcvd, hostSent, rtio_dma, cfg>>
vars == <<kpc, kcont, kcall, kres, nops, mailbox, DMA_RECORDER, rebound,
          sent, hostObs, recorded, rpcq, kret, typeinfo, wb, posted, hostRpc,
          kval, rcvd, hostSent, rtio_dma, cfg>>

\* ---------------------------------------------------------------- messages
NoMsg == [type |-> "none"]
Log(text) == [type |-> "Log", text |-> text]
RunAborted == [type |-> "RunAborted"]
RunFinished == [type |-> "RunFinished"]
RpcFlush == [type |-> "RpcFlush"]
RpcSend(async, call) == [type |-> "RpcSend", async |-> async, call |-> call]
DmaRecordStart(name) == [type |-> "DmaRecordStart", name |-> name]
DmaRecordAppend(data) == [type |-> "DmaRecordAppend", data |-> data]
DmaRecordStop(duration, enable_ddma) ==
    [type |-> "DmaRecordStop", duration |-> duration, enable_ddma |-> enable_ddma]

IsType(m, t) == m.type = t
Last(s) == s[Len(s)]

\* ----------------------------------------------------------------- mailbox
\* board_artiq::mailbox: one slot shared by both CPUs.
MailboxEmpty == [from |-> "none", msg |-> NoMsg]
mailbox_send(who, msg) == [from |-> who, msg |-> msg]
mailbox_acknowledged(who) == mailbox.from # who
mailbox_receive(who) ==
    IF mailbox.from \notin {"none", who} THEN mailbox.msg ELSE NoMsg

\* send(): publish the message, then poll until it is acknowledged.  The
\* poll is the state kpc = "send"; cont names what runs after it.
send(request, cont) ==
    /\ mailbox' = mailbox_send("kernel", request)
    /\ sent' = Append(sent, request)
    /\ kpc' = "send"
    /\ kcont' = cont

\* The poll `while !mailbox::acknowledged() {}` of send() has succeeded.
SendDoneNoWait(cont) ==
    /\ kpc = "send"
    /\ kcont = cont
SendDone(cont) ==
    /\ kpc = "send"
    /\ kcont = cont
    /\ mailbox_acknowledged("kernel")

\* ---------------------------------------------------------- async RPC queue
\* board_artiq::rpc_queue: a bounded FIFO of encoded calls, written by the
\* kernel CPU and read by the comms CPU.
rpc_queue_full(q) == Len(q) >= QueueSlots
rpc_queue_empty(q) == q = <<>>
\* rpc_proto::send_args into the slot: Err(UnexpectedEnd) when the encoded
\* call is larger than a slot.
send_args_fits(call) == ~call.big

\* -------------------------------------------------------------- exceptions
NoRes == [fn |-> "none", kind |-> "none", exn |-> "", msg |-> ""]
Running(fn) == [fn |-> fn, kind |-> "running", exn |-> "", msg |-> ""]
Returned(fn) == [fn |-> fn, kind |-> "return", exn |-> "", msg |-> ""]
\* raise!(name, message): non-local transfer back into the program.
raise(fn, name, message) == [fn |-> fn, kind |-> "raise", exn |-> name, msg |-> message]
Panicked(fn, message) == [fn |-> fn, kind |-> "panic", exn |-> "", msg |-> message]

NoCall == [fn |-> "none", bytes |-> <<>>, event |-> <<>>, stop |-> <<>>, args |-> <<>>,
           name |-> "", uses_ddma |-> FALSE]

\* ------------------------------------------------------------ DMA recorder
\* Bytes of machine integers.  i32 values are TLA+ integers; >> is the
\* arithmetic shift (floor division) and `as u8` keeps the low 8 bits.
Shr(x, n) == x \div (2 ^ n)
AsU8(x) == x % 256

\* The i64 timestamp (now_hi << 32) | now_lo is kept as its two 32-bit
\* halves <<now_hi, now_lo>>.
Timestamp(now_hi, now_lo) == <<now_hi, now_lo>>
TimestampByte(timestamp, k) ==
    IF k < 4 THEN AsU8(Shr(timestamp[2], 8 * k))
             ELSE AsU8(Shr(timestamp[1], 8 * (k - 4)))

RecordLength(words) == HEADER_LENGTH + words * 4

NeedsFlushHeaderOnly(rec, length) == Len(rec.buffer) - rec.data_len < HEADER_LENGTH
NeedsFlush(rec, length) == Len(rec.buffer) - rec.data_len < length

RecordHeader(length, target, timestamp) ==
    << AsU8(Shr(length, 0)),
       AsU8(Shr(target, 8)),
       AsU8(Shr(target, 16)),
       AsU8(Shr(target, 24)),
       TimestampByte(timestamp, 0),
       TimestampByte(timestamp, 1),
       TimestampByte(timestamp, 2),
       TimestampByte(timestamp, 3),
       TimestampByte(timestamp, 4),
       TimestampByte(timestamp, 5),
       TimestampByte(timestamp, 6),
       TimestampByte(timestamp, 7),
       AsU8(Shr(target, 0)) >>

WordBytes(word) ==
    << AsU8(Shr(word, 0)), AsU8(Shr(word, 8)), AsU8(Shr(word, 16)), AsU8(Shr(word, 24)) >>

RECURSIVE WordsBytes(_)
WordsBytes(words) ==
    IF words = <<>> THEN <<>>
    ELSE WordBytes(Head(words)) \o WordsBytes(Tail(words))

\* The record written for one output event.
RecordBytes(target, timestamp, words) ==
    RecordHeader(RecordLength(Len(words)), target, timestamp) \o WordsBytes(words)

\* buffer[data_len .. data_len + length] = bytes; data_len += length.
WriteRecordHeaderOnly(rec, bytes) ==
    [rec EXCEPT
       !.buffer = [i \in 1..Len(rec.buffer) |->
                     IF i > rec.data_len /\ i <= rec.data_len + Len(bytes)
                     THEN bytes[i - rec.data_len] ELSE rec.buffer[i]],
       !.data_len = rec.data_len + HEADER_LENGTH]
WriteRecord(rec, bytes) ==
    [rec EXCEPT
       !.buffer = [i \in 1..Len(rec.buffer) |->
                     IF i > rec.data_len /\ i <= rec.data_len + Len(bytes)
                     THEN bytes[i - rec.data_len] ELSE rec.buffer[i]],
       !.data_len = rec.data_len + Len(bytes)]

\* &buffer[..data_len]
Pending(rec) == SubSeq(rec.buffer, 1, rec.data_len)

\* ------------------------------------------------------------------ inputs
Names == {"seq1"}
StopArgs == {<<100, TRUE>>}
\* <<target, word, now_hi, now_lo>>
OutputArgs == {<<5, 1, 0, 1000>>, <<-2130574588, -2, 16909060, 84281096>>}
Words16 == [i \in 1..16 |-> IF i % 2 = 0 THEN i * 65793 ELSE -i]
Words17 == [i \in 1..17 |-> i]
\* <<target, words, now_hi, now_lo>>
WideArgs == {<<258, <<>>, 0, 0>>, <<5, Words16, 1, 70000>>, <<7, Words17, 0, 1000>>}

\* The typeinfo symbol of the image: absent, or a table of types, each with
\* its attribute descriptors and its live objects.  big marks an attribute
\* whose encoded value does not fit a slot of the async queue.
NoTypeinfo == [exported |-> FALSE, types |-> <<>>]
TypeInfos ==
    { NoTypeinfo,
      [exported |-> TRUE, types |-> <<>>],
      [exported |-> TRUE,
       types |-> << [attributes |-> << [offset |-> 0, tag |-> "i", name |-> "x", big |-> FALSE],
                                        [offset |-> 4, tag |-> "", name |-> "y", big |-> FALSE],
                                        [offset |-> 8, tag |-> "l", name |-> "z", big |-> TRUE] >>,
                     objects |-> <<100>>],
                    [attributes |-> <<>>, objects |-> <<300>>],
                    [attributes |-> << [offset |-> 0, tag |-> "b", name |-> "w", big |-> FALSE] >>,
                     objects |-> <<400, 500>>] >>] }

\* The registers of the DMA controller (csr::rtio_dma) and the CRI selector
\* (csr::cri_con::selected), as they are after reset.
RtioDmaReset ==
    [enable |-> 0, error |-> 0, error_channel |-> 0, error_timestamp |-> 0,
     base_address |-> 0, time_offset |-> 0, selected |-> 0]

\* -------------------------------------------------------------------- Init
InitRuntime ==
    /\ kpc = "prog"
    /\ kcont = "none"
    /\ kcall = NoCall
    /\ kres = NoRes
    /\ nops = 0
    /\ mailbox = MailboxEmpty
    /\ DMA_RECORDER = [active |-> FALSE, data_len |-> 0,
                       buffer |-> [i \in 1..DMA_BUFFER_SIZE |-> 0]]
    /\ rebound = FALSE
    /\ sent = <<>>
    /\ hostObs = <<>>
    /\ recorded = <<>>
    /\ rpcq = <<>>
    /\ kret = "prog"
    /\ wb = 0
    /\ posted = <<>>
    /\ hostRpc = <<>>
    /\ kval = <<>>
    /\ rcvd = <<>>
    /\ hostSent = <<>>
    /\ rtio_dma = RtioDmaReset

Init == InitRuntime /\ typeinfo = NoTypeinfo /\ cfg = "kernel_has_rtio_dma"
InitRpc == InitRuntime /\ typeinfo \in TypeInfos /\ cfg = "kernel_has_rtio_dma"

\* The program calls an entry point.
Call == kpc = "prog" /\ nops < MaxOps /\ nops' = nops + 1

\* ------------------------------------------------------------------- panic
\* panic_fmt: Log with the location, Log with the message, RunAborted, halt.
panic_fmt(fn, message) ==
    /\ kres' = Panicked(fn, message)
    /\ send(Log("panic at file:line:column"), "panic_fmt_message")

panic_fmt_message_skipped ==
    /\ SendDone("panic_fmt_message")
    /\ send(RunAborted, "panic_fmt_halt")
    /\ UNCHANGED <<kcall, kres, nops, DMA_RECORDER, rebound, hostObs, recorded>>
    /\ UNCHANGED rpcVars
    /\ UNCHANGED reqVars
panic_fmt_message ==
    /\ SendDone("panic_fmt_message")
    /\ send(Log(kres.msg), "panic_fmt_aborted")
    /\ UNCHANGED <<kcall, kres, nops, DMA_RECORDER, rebound, hostObs, recorded>>
    /\ UNCHANGED rpcVars
    /\ UNCHANGED reqVars

panic_fmt_aborted ==
    /\ SendDone("panic_fmt_aborted")
    /\ send(RunAborted, "panic_fmt_halt")
    /\ UNCHANGED <<kcall, kres, nops, DMA_RECORDER, rebound, hostObs, recorded>>
    /\ UNCHANGED rpcVars
    /\ UNCHANGED reqVars

panic_fmt_halt ==
    /\ SendDone("panic_fmt_halt")
    /\ kpc' = "halt"
    /\ UNCHANGED <<kcont, kcall, kres, nops, mailbox, DMA_RECORDER, rebound,
                   sent, hostObs, recorded>>
    /\ UNCHANGED rpcVars
    /\ UNCHANGED reqVars

\* The last send() of an entry point is acknowledged: it returns.
send_return ==
    /\ SendDone("return")
    /\ kpc' = "prog"
    /\ kres' = Returned(kres.fn)
    /\ UNCHANGED <<kcont, kcall, nops, mailbox, DMA_RECORDER, rebound, sent,
                   hostObs, recorded>>
    /\ UNCHANGED rpcVars
    /\ UNCHANGED reqVars

\* ---------------------------------------------------------- DMA recording
\* if DMA_RECORDER.active { raise!("DMAError", "DMA is already recording") }
AlreadyRecordingUnchecked(rec) == FALSE
AlreadyRecording(rec) == rec.active

\* if !DMA_RECORDER.active { raise!("DMAError", "DMA is not recording") }
NotRecordingUnchecked(rec) == FALSE
NotRecording(rec) == ~rec.active

\* library.rebind(b"rtio_output", ...): the program's rtio_output and
\* rtio_output_wide reach the recorder only while they are rebound to it.
OutputIsRecorderAlways(rb) == TRUE
OutputIsRecorder(rb) == rb

dma_record_start(name) ==
    /\ Call
    /\ IF AlreadyRecording(DMA_RECORDER)
       THEN /\ kres' = raise("dma_record_start", "DMAError", "DMA is already recording")
            /\ UNCHANGED <<kpc, kcont, kcall, mailbox, DMA_RECORDER, rebound,
                           sent, hostObs, recorded>>
       ELSE /\ rebound' = TRUE
            /\ DMA_RECORDER' = [DMA_RECORDER EXCEPT !.active = TRUE]
            /\ kres' = Running("dma_record_start")
            /\ recorded' = <<>>
            /\ send(DmaRecordStart(name), "return")
            /\ UNCHANGED <<kcall, hostObs>>
    /\ UNCHANGED rpcVars
    /\ UNCHANGED reqVars

\* dma_record_stop begins with dma_record_flush().
dma_record_stop(duration, enable_ddma) ==
    /\ Call
    /\ kres' = Running("dma_record_stop")
    /\ kcall' = [NoCall EXCEPT !.fn = "dma_record_stop",
                               !.stop = <<duration, enable_ddma>>]
    /\ send(DmaRecordAppend(Pending(DMA_RECORDER)), "dma_record_stop")
    /\ UNCHANGED <<DMA_RECORDER, rebound, hostObs, recorded>>
    /\ UNCHANGED rpcVars
    /\ UNCHANGED reqVars

\* The flush is acknowledged: data_len = 0, then the check of active.
dma_record_stop_flushed ==
    /\ SendDone("dma_record_stop")
    /\ IF NotRecording(DMA_RECORDER)
       THEN /\ DMA_RECORDER' = [DMA_RECORDER EXCEPT !.data_len = 0]
            /\ kres' = raise("dma_record_stop", "DMAError", "DMA is not recording")
            /\ kpc' = "prog"
            /\ UNCHANGED <<kcont, mailbox, rebound, sent>>
       ELSE /\ rebound' = FALSE
            /\ DMA_RECORDER' = [DMA_RECORDER EXCEPT !.data_len = 0, !.active = FALSE]
            /\ send(DmaRecordStop(kcall.stop[1], kcall.stop[2]), "return")
            /\ UNCHANGED kres
    /\ UNCHANGED <<kcall, nops, hostObs, recorded>>
    /\ UNCHANGED rpcVars
    /\ UNCHANGED reqVars

\* The record slice buffer[data_len .. data_len + length] is taken (a range
\* past the end of the buffer panics), data_len advances, header and data
\* are copied in.
record_write(fn, rec, bytes, event) ==
    IF rec.data_len + Len(bytes) > Len(rec.buffer)
    THEN /\ DMA_RECORDER' = rec
         /\ panic_fmt(fn, "range end index out of range")
         /\ UNCHANGED recorded
    ELSE /\ DMA_RECORDER' = WriteRecord(rec, bytes)
         /\ recorded' = Append(recorded, event)
         /\ kpc' = "prog"
         /\ kres' = Returned(fn)
         /\ UNCHANGED <<kcont, mailbox, sent>>

\* dma_record_output_prepare and the copy of the data words.
record_output(fn, target, timestamp, words) ==
    LET bytes == RecordBytes(target, timestamp, words)
        event == <<target, timestamp, words>>
    IN  /\ kcall' = [NoCall EXCEPT !.fn = fn, !.bytes = bytes, !.event = event]
        /\ IF NeedsFlush(DMA_RECORDER, RecordLength(Len(words)))
           THEN /\ kres' = Running(fn)
                /\ send(DmaRecordAppend(Pending(DMA_RECORDER)), "dma_record_output_prepare")
                /\ UNCHANGED <<DMA_RECORDER, recorded>>
           ELSE record_write(fn, DMA_RECORDER, bytes, event)

\* The flush inside dma_record_output_prepare is acknowledged.
dma_record_output_prepare_flushed ==
    /\ SendDone("dma_record_output_prepare")
    /\ record_write(kcall.fn, [DMA_RECORDER EXCEPT !.data_len = 0],
                    kcall.bytes, kcall.event)
    /\ UNCHANGED <<kcall, nops, rebound, hostObs>>
    /\ UNCHANGED rpcVars
    /\ UNCHANGED reqVars

\* The program's rtio_output while it is rebound to dma_record_output.
dma_record_output(target, word, now_hi, now_lo) ==
    /\ Call
    /\ OutputIsRecorder(rebound)
    /\ record_output("dma_record_output", target, Timestamp(now_hi, now_lo), <<word>>)
    /\ UNCHANGED <<rebound, hostObs>>
    /\ UNCHANGED rpcVars
    /\ UNCHANGED reqVars

AssertMessage == "assertion failed: words.len() <= 16"

\* assert!(words.len() <= 16)
WideAssertNone(words) == TRUE
WideAssert(words) == Len(words) <= MAX_WIDE_WORDS

\* The program's rtio_output_wide while it is rebound to dma_record_output_wide.
dma_record_output_wide(target, words, now_hi, now_lo) ==
    /\ Call
    /\ OutputIsRecorder(rebound)
    /\ IF ~WideAssert(words)
       THEN /\ panic_fmt("dma_record_output_wide", AssertMessage)
            /\ UNCHANGED <<kcall, DMA_RECORDER, recorded>>
       ELSE record_output("dma_record_output_wide", target,
                          Timestamp(now_hi, now_lo), words)
    /\ UNCHANGED <<rebound, hostObs>>
    /\ UNCHANGED rpcVars
    /\ UNCHANGED reqVars

\* The program's rtio_output / rtio_output_wide while they are bound to the
\* direct RTIO output (rtio::output, rtio::output_wide): no recorder access.
rtio_output(target, word) ==
    /\ Call
    /\ ~OutputIsRecorder(rebound)
    /\ kres' = Returned("rtio_output")
    /\ UNCHANGED <<kpc, kcont, kcall, mailbox, DMA_RECORDER, rebound, sent,
                   hostObs, recorded>>
    /\ UNCHANGED rpcVars
    /\ UNCHANGED reqVars

rtio_output_wide(target, words) ==
    /\ Call
    /\ ~OutputIsRecorder(rebound)
    /\ kres' = Returned("rtio_output_wide")
    /\ UNCHANGED <<kpc, kcont, kcall, mailbox, DMA_RECORDER, rebound, sent,
                   hostObs, recorded>>
    /\ UNCHANGED rpcVars
    /\ UNCHANGED reqVars

\* -------------------------------------------------------------------- host
\* The comms CPU takes the kernel's message out of the mailbox and
\* acknowledges it.
\* An RpcSend hands it an RPC call; it acknowledges RpcFlush only once it has
\* drained the async queue.
host_acknowledge ==
    LET msg == mailbox_receive("host") IN
    /\ msg # NoMsg
    /\ IsType(msg, "RpcFlush") => rpc_queue_empty(rpcq)
    /\ hostObs' = Append(hostObs, msg)
    /\ hostRpc' = IF IsType(msg, "RpcSend")
                  THEN Append(hostRpc, [call |-> msg.call, async |-> msg.async])
                  ELSE hostRpc
    /\ mailbox' = MailboxEmpty
    /\ UNCHANGED <<kpc, kcont, kcall, kres, nops, sent, dmaVars,
                   rpcq, kret, typeinfo, wb, posted>>
    /\ UNCHANGED reqVars

\* The comms CPU takes the oldest call out of the async queue.
host_dequeue ==
    /\ ~rpc_queue_empty(rpcq)
    /\ hostRpc' = Append(hostRpc, [call |-> Head(rpcq), async |-> TRUE])
    /\ rpcq' = Tail(rpcq)
    /\ UNCHANGED <<kpc, kcont, kcall, kres, nops, mailbox, sent, hostObs, dmaVars,
                   kret, typeinfo, wb, posted>>
    /\ UNCHANGED reqVars

\* ------------------------------------------------------- DMA specification
NextDma ==
    \/ \E name \in Names : dma_record_start(name)
    \/ \E a \in StopArgs : dma_record_stop(a[1], a[2])
    \/ dma_record_stop_flushed
    \/ \E a \in OutputArgs : dma_record_output(a[1], a[2], a[3], a[4])
    \/ \E a \in WideArgs : dma_record_output_wide(a[1], a[2], a[3], a[4])
    \/ dma_record_output_prepare_flushed
    \/ \E a \in OutputArgs : rtio_output(a[1], a[2])
    \/ \E a \in WideArgs : rtio_output_wide(a[1], a[2])
    \/ send_return
    \/ panic_fmt_message
    \/ panic_fmt_aborted
    \/ panic_fmt_halt
    \/ host_acknowledge

SpecDma == Init /\ [][NextDma]_vars

\* ---------------------------------------------------------------------- RPC
RpcCall(service, tag, data, big) ==
    [id |-> Len(posted) + 1, service |-> service, tag |-> tag, data |-> data, big |-> big]
RpcServices == {1}
RpcTags == {"n"}

\* rpc_send: `while !rpc_queue::empty() {}` is the state kpc = "rpc_send".
rpc_send(service, tag) ==
    /\ Call
    /\ kpc' = "rpc_send"
    /\ kres' = Running("rpc_send")
    /\ kcall' = [NoCall EXCEPT !.fn = "rpc_send", !.event = RpcCall(service, tag, <<>>, FALSE)]
    /\ posted' = Append(posted, [call |-> RpcCall(service, tag, <<>>, FALSE), async |-> FALSE])
    /\ UNCHANGED <<kcont, mailbox, sent, hostObs, dmaVars, rpcq, kret, typeinfo, wb, hostRpc>>
    /\ UNCHANGED reqVars

rpc_send_publish ==
    /\ kpc = "rpc_send"
    /\ rpc_queue_empty(rpcq)
    /\ send(RpcSend(FALSE, kcall.event), "return")
    /\ UNCHANGED <<kcall, kres, nops, hostObs, dmaVars, rpcVars>>
    /\ UNCHANGED reqVars

\* while rpc_queue::full() {}
AsyncWaitsNever(q) == FALSE
AsyncWaits(q) == rpc_queue_full(q)

\* while !rpc_queue::empty() {} before the mailbox fallback
FallbackWaitsNever(q) == FALSE
FallbackWaits(q) == ~rpc_queue_empty(q)

\* Entry of rpc_send_async from caller ret; the loop `while rpc_queue::full()
\* {}` is the state kpc = "rpc_send_async".
rpc_send_async_enter(ret, service, tag, data, big) ==
    /\ kpc' = "rpc_send_async"
    /\ kret' = ret
    /\ kcall' = [NoCall EXCEPT !.fn = "rpc_send_async", !.event = RpcCall(service, tag, data, big)]
    /\ posted' = Append(posted, [call |-> RpcCall(service, tag, data, big), async |-> TRUE])
    /\ UNCHANGED <<kcont, mailbox, sent, hostObs, dmaVars, rpcq, typeinfo, hostRpc>>

rpc_send_async(service, tag, big) ==
    /\ Call
    /\ kres' = Running("rpc_send_async")
    /\ rpc_send_async_enter("prog", service, tag, <<>>, big)
    /\ UNCHANGED wb
    /\ UNCHANGED reqVars

\* rpc_send_async returns to its caller.
rpc_send_async_return ==
    /\ kpc' = kret
    /\ kres' = IF kret = "prog" THEN Returned("rpc_send_async") ELSE kres

\* rpc_queue::enqueue: the call is encoded into the free slot; when it does
\* not fit nothing is enqueued and the fallback begins.
rpc_send_async_enqueue ==
    /\ kpc = "rpc_send_async"
    /\ ~AsyncWaits(rpcq)
    /\ IF send_args_fits(kcall.event)
       THEN /\ rpcq' = Append(rpcq, kcall.event)
            /\ rpc_send_async_return
       ELSE /\ kpc' = "rpc_send_async_fallback"
            /\ UNCHANGED <<rpcq, kres>>
    /\ UNCHANGED <<kcont, kcall, nops, mailbox, sent, hostObs, dmaVars,
                   kret, typeinfo, wb, posted, hostRpc>>
    /\ UNCHANGED reqVars

rpc_send_async_fallback ==
    /\ kpc = "rpc_send_async_fallback"
    /\ ~FallbackWaits(rpcq)
    /\ send(RpcSend(TRUE, kcall.event), "rpc_send_async")
    /\ UNCHANGED <<kcall, kres, nops, hostObs, dmaVars, rpcVars>>
    /\ UNCHANGED reqVars

rpc_send_async_sent ==
    /\ SendDone("rpc_send_async")
    /\ rpc_send_async_return
    /\ UNCHANGED <<kcont, kcall, nops, mailbox, sent, hostObs, dmaVars, rpcVars>>
    /\ UNCHANGED reqVars

\* -------------------------------------------------------- program exit: main
\* The (type, object, attribute) visits of attribute_writeback, in the
\* order of its three nested loops.
RECURSIVE AttrVisits(_, _)
AttrVisits(object, attributes) ==
    IF attributes = <<>> THEN <<>>
    ELSE << [object |-> object, attribute |-> Head(attributes)] >>
         \o AttrVisits(object, Tail(attributes))

RECURSIVE ObjectVisits(_, _)
ObjectVisits(objects, attributes) ==
    IF objects = <<>> THEN <<>>
    ELSE AttrVisits(Head(objects), attributes) \o ObjectVisits(Tail(objects), attributes)

RECURSIVE TypeVisits(_)
TypeVisits(types) ==
    IF types = <<>> THEN <<>>
    ELSE ObjectVisits(Head(types).objects, Head(types).attributes)
         \o TypeVisits(Tail(types))

\* __modinit__ returns: main goes on to attribute_writeback when the image
\* exports typeinfo, and to the RpcFlush otherwise.
modinit_return ==
    /\ kpc = "prog"
    /\ kres' = Returned("__modinit__")
    /\ IF typeinfo.exported
       THEN /\ kpc' = "writeback"
            /\ wb' = 1
       ELSE /\ kpc' = "main_flush"
            /\ UNCHANGED wb
    /\ UNCHANGED <<kcont, kcall, nops, mailbox, sent, hostObs, dmaVars,
                   rpcq, kret, typeinfo, posted, hostRpc>>
    /\ UNCHANGED reqVars

\* One attribute visit: an async RPC when its tag is not empty.
attribute_writeback_untagged ==
    /\ kpc = "writeback"
    /\ wb <= Len(TypeVisits(typeinfo.types))
    /\ wb' = wb + 1
    /\ LET v == TypeVisits(typeinfo.types)[wb] IN
       rpc_send_async_enter("writeback", 0, v.attribute.tag,
           <<v.object, v.attribute.name, v.object + v.attribute.offset>>,
           v.attribute.big)
    /\ UNCHANGED <<kres, nops>>
    /\ UNCHANGED reqVars
attribute_writeback ==
    /\ kpc = "writeback"
    /\ wb <= Len(TypeVisits(typeinfo.types))
    /\ wb' = wb + 1
    /\ LET v == TypeVisits(typeinfo.types)[wb] IN
       IF Len(v.attribute.tag) > 0
       THEN rpc_send_async_enter("writeback", 0, v.attribute.tag,
                <<v.object, v.attribute.name, v.object + v.attribute.offset>>,
                v.attribute.big)
       ELSE UNCHANGED <<kpc, kcont, kcall, mailbox, sent, hostObs, dmaVars,
                        rpcq, kret, typeinfo, posted, hostRpc>>
    /\ UNCHANGED <<kres, nops>>
    /\ UNCHANGED reqVars

\* The loops of attribute_writeback are over.
attribute_writeback_done ==
    /\ kpc = "writeback"
    /\ wb > Len(TypeVisits(typeinfo.types))
    /\ kpc' = "main_flush"
    /\ UNCHANGED <<kcont, kcall, kres, nops, mailbox, sent, hostObs, dmaVars, rpcVars>>
    /\ UNCHANGED reqVars

\* send(&RpcFlush)
main_rpc_flush_skipped ==
    /\ kpc = "main_flush"
    /\ send(RunFinished, "main_halt")
    /\ UNCHANGED <<kcall, kres, nops, hostObs, dmaVars, rpcVars>>
    /\ UNCHANGED reqVars
main_rpc_flush ==
    /\ kpc = "main_flush"
    /\ send(RpcFlush, "main_run_finished")
    /\ UNCHANGED <<kcall, kres, nops, hostObs, dmaVars, rpcVars>>
    /\ UNCHANGED reqVars

\* send(&RunFinished)
main_run_finished ==
    /\ SendDone("main_run_finished")
    /\ send(RunFinished, "main_halt")
    /\ UNCHANGED <<kcall, kres, nops, hostObs, dmaVars, rpcVars>>
    /\ UNCHANGED reqVars

\* loop {}
main_halt ==
    /\ SendDone("main_halt")
    /\ kpc' = "halt"
    /\ UNCHANGED <<kcont, kcall, kres, nops, mailbox, sent, hostObs, dmaVars, rpcVars>>
    /\ UNCHANGED reqVars

\* ------------------------------------------------------- RPC specification
NextRpc ==
    \/ \E sv \in RpcServices, tag \in RpcTags : rpc_send(sv, tag)
    \/ rpc_send_publish
    \/ \E sv \in RpcServices, tag \in RpcTags, big \in BOOLEAN : rpc_send_async(sv, tag, big)
    \/ rpc_send_async_enqueue
    \/ rpc_send_async_fallback
    \/ rpc_send_async_sent
    \/ send_return
    \/ modinit_return
    \/ attribute_writeback
    \/ attribute_writeback_done
    \/ main_rpc_flush
    \/ main_run_finished
    \/ main_halt
    \/ host_acknowledge
    \/ host_dequeue

SpecRpc == InitRpc /\ [][NextRpc]_vars

\* ------------------------------------------------- the trace format, read
\* A signed 32-bit value from its four little-endian bytes.
FromBytes(b0, b1, b2, b3) ==
    b0 + 256 * b1 + 65536 * b2 + 16777216 * (IF b3 >= 128 THEN b3 - 256 ELSE b3)

RECURSIVE DecodeWords(_)
DecodeWords(bytes) ==
    IF Len(bytes) < 4 THEN <<>>
    ELSE <<FromBytes(bytes[1], bytes[2], bytes[3], bytes[4])>>
         \o DecodeWords(SubSeq(bytes, 5, Len(bytes)))

\* One record: length, channel (3 bytes), timestamp (8 bytes), address,
\* then the data words; the target is channel << 8 | address.
DecodeRecord(r) ==
    << FromBytes(r[13], r[2], r[3], r[4]),
       << FromBytes(r[9], r[10], r[11], r[12]), FromBytes(r[5], r[6], r[7], r[8]) >>,
       DecodeWords(SubSeq(r, HEADER_LENGTH + 1, Len(r))) >>

\* The bytes are a whole number of well-formed records.
RECURSIVE WholeRecords(_)
WholeRecords(bytes) ==
    \/ bytes = <<>>
    \/ /\ bytes[1] >= HEADER_LENGTH
       /\ (bytes[1] - HEADER_LENGTH) % 4 = 0
       /\ bytes[1] <= Len(bytes)
       /\ WholeRecords(SubSeq(bytes, bytes[1] + 1, Len(bytes)))

RECURSIVE Decode(_)
Decode(bytes) ==
    IF bytes = <<>> \/ bytes[1] < HEADER_LENGTH \/ bytes[1] > Len(bytes) THEN <<>>
    ELSE <<DecodeRecord(SubSeq(bytes, 1, bytes[1]))>>
         \o Decode(SubSeq(bytes, bytes[1] + 1, Len(bytes)))

RECURSIVE Concat(_)
Concat(seqs) == IF seqs = <<>> THEN <<>> ELSE Head(seqs) \o Concat(Tail(seqs))


\* The DmaRecordAppend blocks the host has received since the last
\* DmaRecordStart.
LastStart ==
    LET S == {i \in 1..Len(hostObs) : IsType(hostObs[i], "DmaRecordStart")}
    IN  IF S = {} THEN 0 ELSE CHOOSE i \in S : \A j \in S : j <= i
SessionBlocks ==
    LET tail == SubSeq(hostObs, LastStart + 1, Len(hostObs))
        apps == SelectSeq(tail, LAMBDA m : IsType(m, "DmaRecordAppend"))
    IN  [i \in 1..Len(apps) |-> apps[i].data]

RECURSIVE TotalLength(_)
TotalLength(events) ==
    IF events = <<>> THEN 0
    ELSE RecordLength(Len(Head(events)[3])) + TotalLength(Tail(events))

OutputFns == {"dma_record_output", "dma_record_output_wide"}

\* ------------------------------------------------------------------ claims

\* C1: at every point where the program runs after a record_start, each
\* DmaRecordAppend block received by the host since that start is a whole
\* number of records, and the received blocks followed by the bytes still
\* pending in the buffer decode into exactly the (target, timestamp, words)
\* tuples recorded since the start, in call order; once DmaRecordStop has
\* been received the blocks alone decode into that sequence.
C1_RoundTrip ==
    (kpc = "prog" /\ LastStart > 0) =>
        /\ \A i \in 1..Len(SessionBlocks) : WholeRecords(SessionBlocks[i])
        /\ Decode(Concat(SessionBlocks) \o Pending(DMA_RECORDER)) = recorded
        /\ IsType(Last(hostObs), "DmaRecordStop") =>
               Decode(Concat(SessionBlocks)) = recorded

\* A recording of two records that was flushed between them and then stopped.
C1_Witness ==
    /\ kpc = "prog"
    /\ LastStart > 0
    /\ IsType(Last(hostObs), "DmaRecordStop")
    /\ Len(recorded) >= 2
    /\ Cardinality({i \in 1..Len(SessionBlocks) : SessionBlocks[i] # <<>>}) >= 2

\* C2: data_len never exceeds the buffer capacity; an output whose record
\* does not fit in the remaining space first sends the pending bytes as
\* DmaRecordAppend with nothing written, and after the acknowledgement the
\* record is written at offset 0; one that fits is written without a flush;
\* so once the records of a recording total more than the capacity at least
\* one block has been sent.
C2_Output(words) ==
    LET length == HEADER_LENGTH + 4 * Len(words) IN
    /\ kres'.kind # "panic"
    /\ IF Len(DMA_RECORDER.buffer) - DMA_RECORDER.data_len < length
       THEN /\ kpc' = "send"
            /\ mailbox'.msg = DmaRecordAppend(Pending(DMA_RECORDER))
            /\ DMA_RECORDER' = DMA_RECORDER
       ELSE /\ kpc' = "prog"
            /\ sent' = sent
            /\ DMA_RECORDER'.data_len = DMA_RECORDER.data_len + length

C2_FlushBeforeOverflow ==
    [][ /\ DMA_RECORDER'.data_len <= DMA_BUFFER_SIZE
        /\ Len(DMA_RECORDER'.buffer) = DMA_BUFFER_SIZE
        /\ \A a \in OutputArgs :
               dma_record_output(a[1], a[2], a[3], a[4]) =>
                   C2_Output(<<a[2]>>)
        /\ \A a \in WideArgs :
               (Len(a[2]) <= MAX_WIDE_WORDS /\ dma_record_output_wide(a[1], a[2], a[3], a[4])) =>
                   C2_Output(a[2])
        /\ dma_record_output_prepare_flushed =>
               /\ kres'.kind = "return"
               /\ DMA_RECORDER'.data_len = Len(kcall.bytes)
        /\ (TotalLength(recorded') > DMA_BUFFER_SIZE) =>
               \E i \in 1..Len(sent') :
                   IsType(sent'[i], "DmaRecordAppend") /\ sent'[i].data # <<>>
      ]_vars

\* An output found no room, flushed, and wrote its record at offset 0.
C2_Witness ==
    /\ kpc = "prog"
    /\ kres.fn \in OutputFns
    /\ kres.kind = "return"
    /\ IsType(Last(hostObs), "DmaRecordAppend")
    /\ Last(hostObs).data # <<>>
    /\ DMA_RECORDER.data_len = Len(kcall.bytes)
    /\ TotalLength(recorded) > DMA_BUFFER_SIZE

\* C3: a record_start made while the recorder is active raises DMAError,
\* leaves the recorder (active included) as it was and publishes no message.
C3_StartWhileActive ==
    [][ \A name \in Names :
          (DMA_RECORDER.active /\ dma_record_start(name)) =>
              /\ kres'.kind = "raise"
              /\ kres'.exn = "DMAError"
              /\ kpc' = "prog"
              /\ DMA_RECORDER' = DMA_RECORDER
              /\ DMA_RECORDER'.active
              /\ sent' = sent
              /\ mailbox' = mailbox
      ]_vars

C3_Witness ==
    /\ kres = raise("dma_record_start", "DMAError", "DMA is already recording")
    /\ DMA_RECORDER.active
    /\ Len(recorded) > 0

\* C4: a record_stop made while the recorder is not active publishes no
\* DmaRecordStop, keeps the recorder inactive, and ends only by raising
\* DMAError.
C4_StopWhileInactive ==
    [][ /\ \A a \in StopArgs :
              (~DMA_RECORDER.active /\ dma_record_stop(a[1], a[2])) =>
                  /\ ~DMA_RECORDER'.active
                  /\ ~IsType(mailbox'.msg, "DmaRecordStop")
        /\ (~DMA_RECORDER.active /\ dma_record_stop_flushed) =>
              /\ kres'.kind = "raise"
              /\ kres'.exn = "DMAError"
              /\ kpc' = "prog"
              /\ ~DMA_RECORDER'.active
              /\ sent' = sent
              /\ mailbox' = mailbox
        /\ (kres.fn = "dma_record_stop" /\ kres'.fn = "dma_record_stop"
              /\ kres.kind = "running" /\ kres'.kind = "return") =>
              IsType(Last(sent), "DmaRecordStop")
      ]_vars

C4_Witness ==
    /\ kres = raise("dma_record_stop", "DMAError", "DMA is not recording")
    /\ ~DMA_RECORDER.active
    /\ kpc = "prog"

AllOutputFns == OutputFns \cup {"rtio_output", "rtio_output_wide"}

C6_WideLimit ==
    [][ /\ \A a \in WideArgs :
              (Len(a[2]) > MAX_WIDE_WORDS /\ dma_record_output_wide(a[1], a[2], a[3], a[4])) =>
                  /\ kres' = Panicked("dma_record_output_wide", AssertMessage)
                  /\ DMA_RECORDER' = DMA_RECORDER
                  /\ recorded' = recorded
                  /\ ~IsType(mailbox'.msg, "DmaRecordAppend")
        /\ kres = Panicked("dma_record_output_wide", AssertMessage) =>
              /\ kres' = kres
              /\ DMA_RECORDER' = DMA_RECORDER
              /\ recorded' = recorded
              /\ sent' # sent => ~IsType(Last(sent'), "DmaRecordAppend")
      ]_vars

\* The 17-word call was made on a recorder holding bytes, and the kernel
\* has halted.
C6_Witness ==
    /\ kpc = "halt"
    /\ kres = Panicked("dma_record_output_wide", AssertMessage)
    /\ DMA_RECORDER.data_len > 0
    /\ IsType(Last(hostObs), "RunAborted")

AsyncOnly(calls) == SelectSeq(calls, LAMBDA c : c.async)

\* C8: the async calls the host has obtained, from the queue or from the
\* mailbox, are the first of the async calls submitted, in submission order.
C8_AsyncOrder ==
    LET pa == AsyncOnly(posted)
        ha == AsyncOnly(hostRpc)
    IN  /\ Len(ha) <= Len(pa)
        /\ ha = SubSeq(pa, 1, Len(ha))

\* The host obtained a queued call, then a mailbox-fallback call, then a
\* queued call.
C8_Witness ==
    LET ha == AsyncOnly(hostRpc) IN
    /\ Len(ha) >= 3
    /\ ~ha[1].call.big
    /\ ha[2].call.big
    /\ ~ha[3].call.big

\* Number of attribute visits with a non-empty tag.
WritebackCount == Len(SelectSeq(TypeVisits(typeinfo.types), LAMBDA v : Len(v.attribute.tag) > 0))

\* C9: RunFinished is the last message sent and RpcFlush the one before it;
\* RpcFlush is sent only after attribute_writeback has posted all its async
\* RPCs; and once the host has received RunFinished the async queue is empty
\* and the host has obtained every RPC the kernel posted.
C9_FlushBeforeFinished ==
    /\ \A i \in 1..Len(sent) :
          IsType(sent[i], "RunFinished") =>
              i = Len(sent) /\ i >= 2 /\ IsType(sent[i - 1], "RpcFlush")
    /\ (\E i \in 1..Len(sent) : IsType(sent[i], "RpcFlush")) =>
          /\ kpc \in {"send", "halt"}
          /\ kcont \in {"main_run_finished", "main_halt"}
          /\ typeinfo.exported => wb = Len(TypeVisits(typeinfo.types)) + 1
          /\ Len(SelectSeq(posted, LAMBDA c : c.call.service = 0)) =
                 (IF typeinfo.exported THEN WritebackCount ELSE 0)
    /\ (\E i \in 1..Len(hostObs) : IsType(hostObs[i], "RunFinished")) =>
          /\ rpcq = <<>>
          /\ hostRpc = posted

\* The host has received RunFinished after async RPCs of the program and of
\* the write-back, some through the queue and one through the mailbox.
C9_Witness ==
    /\ hostObs # <<>>
    /\ IsType(Last(hostObs), "RunFinished")
    /\ typeinfo.exported
    /\ WritebackCount >= 2
    /\ \E i \in 1..Len(posted) : posted[i].async /\ posted[i].call.service # 0
    /\ \E i \in 1..Len(posted) : posted[i].call.service = 0 /\ posted[i].call.big

\* C10: the messages the host has taken are the first of the messages the
\* kernel sent, in the same order; at most one sent message is not yet
\* taken, only while the kernel is inside send(), and it is the one in the
\* mailbox; outside send() every message sent has been taken.
C10_Rendezvous ==
    /\ Len(hostObs) <= Len(sent)
    /\ hostObs = SubSeq(sent, 1, Len(hostObs))
    /\ Len(sent) - Len(hostObs) <= 1
    /\ Len(sent) > Len(hostObs) =>
          (kpc = "send" /\ mailbox = mailbox_send("kernel", Last(sent)))
    /\ kpc # "send" => (hostObs = sent /\ mailbox_acknowledged("kernel"))

\* A third message is in flight after two were taken.
C10_Witness ==
    /\ kpc = "send"
    /\ Len(hostObs) >= 2
    /\ Len(sent) = Len(hostObs) + 1
    /\ mailbox.msg = Last(sent)
    /\ \E i \in 1..Len(hostObs) : hostObs[i] # Last(sent)

\* ------------------------------------------------- request / reply messages
CachePutRequest(key, value) == [type |-> "CachePutRequest", key |-> key, value |-> value]
CachePutReply(succeeded) == [type |-> "CachePutReply", succeeded |-> succeeded]
CacheGetReply(value) == [type |-> "CacheGetReply", value |-> value]

\* eh_artiq::Exception: the fields a handler can tell apart.
Exception(id, message, param) == [id |-> id, message |-> message, param |-> param]
NoException == Exception("", "", <<0, 0, 0>>)

\* ----------------------------------------------------------------- recv
\* Entry-point calls of the request / reply specifications in one run.
MaxCalls == 3

CallReq == kpc = "prog" /\ nops < MaxCalls /\ nops' = nops + 1

\* send() has returned and recv() begins: `while msg_ptr == 0 { msg_ptr =
\* mailbox::receive(); }` is the state kpc = "recv".
send_recv ==
    /\ kpc = "send"
    /\ kcont \in {"rpc_recv", "cache_put", "dma_retrieve", "dma_playback_await",
                 "subkernel_await_finish", "subkernel_await_message"}
    /\ mailbox_acknowledged("kernel")
    /\ kpc' = "recv"
    /\ UNCHANGED <<kcont, kcall, kres, nops, mailbox, sent, hostObs>>
    /\ UNCHANGED <<dmaVars, rpcVars, reqVars>>

\* The poll of recv() has found a message: the handler runs on it.
recv(cont) ==
    /\ kpc = "recv"
    /\ kcont = cont
    /\ mailbox_receive("kernel") # NoMsg
    /\ rcvd' = Append(rcvd, mailbox_receive("kernel"))

\* The handler returns value: mailbox::acknowledge(), and recv returns it.
recv_return(fn, value) ==
    /\ mailbox' = MailboxEmpty
    /\ kpc' = "prog"
    /\ kres' = Returned(fn)
    /\ kval' = value
    /\ UNCHANGED <<kcont, sent>>

\* The handler raises: the unwinder leaves recv() from inside the handler,
\* before recv reaches mailbox::acknowledge().
recv_raise(fn, exn) ==
    /\ kpc' = "prog"
    /\ kres' = raise(fn, exn.id, exn.message)
    /\ kval' = exn.param
    /\ UNCHANGED <<kcont, mailbox, sent>>

\* The else branch of recv!: send(&Log("unexpected reply: ...")); loop {}
\* format_args!("unexpected reply: {:?}\n", request) shows the variant.
Unexpected(fn) == [fn |-> fn, kind |-> "unexpected", exn |-> "", msg |-> ""]
UnexpectedSilent(fn, request) ==
    /\ kres' = Unexpected(fn)
    /\ kpc' = "halt"
    /\ UNCHANGED <<kcont, kval, mailbox, sent>>
recv_unexpected(fn, request) ==
    /\ kres' = Unexpected(fn)
    /\ send(Log("unexpected reply: " \o request.type \o "\n"), "recv_unexpected")
    /\ UNCHANGED kval

\* The Log of the else branch is acknowledged: loop {}
recv_unexpected_halt ==
    /\ SendDone("recv_unexpected")
    /\ kpc' = "halt"
    /\ UNCHANGED <<kcont, kcall, kres, nops, mailbox, sent, hostObs>>
    /\ UNCHANGED <<dmaVars, rpcVars, reqVars>>

\* --------------------------------------------------------------- cache_put
\* <<key, list>>
CachePutArgs == {<<"k", <<1, 2, 3>>>>, <<"k", <<4>>>>}

cache_put(key, list) ==
    /\ CallReq
    /\ kres' = Running("cache_put")
    /\ send(CachePutRequest(key, list), "cache_put")
    /\ UNCHANGED <<kcall, hostObs>>
    /\ UNCHANGED <<dmaVars, rpcVars, reqVars>>

\* if !succeeded { raise!("CacheError", ...) }
CachePutFailsNever(reply) == FALSE
CachePutFails(reply) == ~reply.succeeded

cache_put_reply ==
    LET request == mailbox_receive("kernel") IN
    /\ recv("cache_put")
    /\ IF IsType(request, "CachePutReply")
       THEN IF CachePutFails(request)
            THEN recv_raise("cache_put",
                     Exception("CacheError", "cannot put into a busy cache row", <<0, 0, 0>>))
            ELSE recv_return("cache_put", <<>>)
       ELSE recv_unexpected("cache_put", request)
    /\ UNCHANGED <<kcall, nops, hostObs, hostSent, rtio_dma, cfg>>
    /\ UNCHANGED <<dmaVars, rpcVars>>

\* ---------------------------------------------------------------- rpc_recv
RpcRecvRequest(slot) == [type |-> "RpcRecvRequest", slot |-> slot]
RpcRecvReply(result) == [type |-> "RpcRecvReply", result |-> result]
\* Result<usize, Exception>: Ok(alloc_size); Err(exception) is the record
\* with ok FALSE.
Ok(alloc_size) == [ok |-> TRUE, alloc_size |-> alloc_size, exception |-> NoException]

\* Positive-size replies the host sends in one run.
MaxAllocs == 2

Slots == {4096}

\* The caller's loop: as long as the return value is positive the program
\* calls rpc_recv again with a buffer of that size.
RecvLoopOpen == kres = Returned("rpc_recv") /\ kval # <<>> /\ kval[1] > 0

rpc_recv(slot) ==
    /\ kpc = "prog"
    /\ IF RecvLoopOpen THEN UNCHANGED nops ELSE nops < MaxCalls /\ nops' = nops + 1
    /\ kres' = Running("rpc_recv")
    /\ send(RpcRecvRequest(slot), "rpc_recv")
    /\ UNCHANGED <<kcall, hostObs>>
    /\ UNCHANGED <<dmaVars, rpcVars, reqVars>>

\* match result { &Ok(alloc_size) => ..., &Err(ref exception) => ... }
RpcRecvOkAlways(result) == TRUE
RpcRecvOk(result) == result.ok

rpc_recv_reply ==
    LET request == mailbox_receive("kernel") IN
    /\ recv("rpc_recv")
    /\ IF IsType(request, "RpcRecvReply")
       THEN IF RpcRecvOk(request.result)
            THEN recv_return("rpc_recv", <<request.result.alloc_size>>)
            ELSE recv_raise("rpc_recv",
                     Exception(request.result.exception.id,
                               request.result.exception.message,
                               request.result.exception.param))
       ELSE recv_unexpected("rpc_recv", request)
    /\ UNCHANGED <<kcall, nops, hostObs, hostSent, rtio_dma, cfg>>
    /\ UNCHANGED <<dmaVars, rpcVars>>

\* --------------------------------------------------------------- subkernel
SubkernelAwaitFinishReply == [type |-> "SubkernelAwaitFinishReply"]
SubkernelMsgRecvReply(count) == [type |-> "SubkernelMsgRecvReply", count |-> count]
SubkernelError(status) == [type |-> "SubkernelError", status |-> status]

\* SubkernelStatus: four plain variants and Exception(e).
SubkernelStatus(kind) == [kind |-> kind, exception |-> NoException]
SubkernelStatusKinds == {"IncorrectState", "Timeout", "CommLost", "OtherError"}

\* The message of the SubkernelError raised for a status.
SubkernelStatusMessageSame(kind) == "Subkernel not running"
SubkernelStatusMessage(kind) ==
    CASE kind = "IncorrectState" -> "Subkernel not running"
      [] kind = "Timeout" -> "Subkernel timed out"
      [] kind = "CommLost" -> "Lost communication with satellite"
      [] kind = "OtherError" -> "An error occurred during subkernel operation"

\* match status { ... }: the exception raised for SubkernelError(status).
SubkernelRaised(status) ==
    IF status.kind = "Exception"
    THEN status.exception
    ELSE Exception("SubkernelError", SubkernelStatusMessage(status.kind), <<0, 0, 0>>)

subkernel_await_finish(id, timeout) ==
    /\ CallReq
    /\ kres' = Running("subkernel_await_finish")
    /\ send([type |-> "SubkernelAwaitFinishRequest", id |-> id, timeout |-> timeout],
            "subkernel_await_finish")
    /\ UNCHANGED <<kcall, hostObs>>
    /\ UNCHANGED <<dmaVars, rpcVars, reqVars>>

subkernel_await_finish_reply ==
    LET request == mailbox_receive("kernel") IN
    /\ recv("subkernel_await_finish")
    /\ IF IsType(request, "SubkernelAwaitFinishReply")
       THEN recv_return("subkernel_await_finish", <<>>)
       ELSE IF IsType(request, "SubkernelError")
            THEN recv_raise("subkernel_await_finish", SubkernelRaised(request.status))
            ELSE recv_unexpected("subkernel_await_finish", request)
    /\ UNCHANGED <<kcall, nops, hostObs, hostSent, rtio_dma, cfg>>
    /\ UNCHANGED <<dmaVars, rpcVars>>

subkernel_await_message(id, timeout, tags, min, max) ==
    /\ CallReq
    /\ kres' = Running("subkernel_await_message")
    /\ kcall' = [NoCall EXCEPT !.fn = "subkernel_await_message", !.args = <<min, max>>]
    /\ send([type |-> "SubkernelMsgRecvRequest", id |-> id, timeout |-> timeout,
             tags |-> tags], "subkernel_await_message")
    /\ UNCHANGED hostObs
    /\ UNCHANGED <<dmaVars, rpcVars, reqVars>>

\* if count < &min || count > &max { raise!(...) }
CountOutOfRangeMinOnly(count, min, max) == count < min
CountOutOfRange(count, min, max) == count < min \/ count > max

subkernel_await_message_reply ==
    LET request == mailbox_receive("kernel")
        fn == "subkernel_await_message"
    IN
    /\ recv("subkernel_await_message")
    /\ IF IsType(request, "SubkernelMsgRecvReply")
       THEN IF CountOutOfRange(request.count, kcall.args[1], kcall.args[2])
            THEN recv_raise(fn, Exception("SubkernelError",
                     "Received less or more arguments than expected", <<0, 0, 0>>))
            ELSE recv_return(fn, <<request.count>>)
       ELSE IF IsType(request, "SubkernelError")
            THEN recv_raise(fn, SubkernelRaised(request.status))
            ELSE recv_unexpected(fn, request)
    /\ UNCHANGED <<kcall, nops, hostObs, hostSent, rtio_dma, cfg>>
    /\ UNCHANGED <<dmaVars, rpcVars>>

\* ------------------------------------------------- dma_erase, dma_retrieve
\* trace: Option<&[u8]>, kept as the address of the slice: Some(bytes) is
\* the record with some TRUE.
None == [some |-> FALSE, ptr |-> 0]
DmaRetrieveReply(trace, duration, uses_ddma) ==
    [type |-> "DmaRetrieveReply", trace |-> trace, duration |-> duration,
     uses_ddma |-> uses_ddma]

dma_erase(name) ==
    /\ CallReq
    /\ kres' = Running("dma_erase")
    /\ send([type |-> "DmaEraseRequest", name |-> name], "return")
    /\ UNCHANGED <<kcall, hostObs>>
    /\ UNCHANGED <<dmaVars, rpcVars, reqVars>>

dma_retrieve(name) ==
    /\ CallReq
    /\ kres' = Running("dma_retrieve")
    /\ kcall' = [NoCall EXCEPT !.fn = "dma_retrieve", !.name = name]
    /\ send([type |-> "DmaRetrieveRequest", name |-> name], "dma_retrieve")
    /\ UNCHANGED hostObs
    /\ UNCHANGED <<dmaVars, rpcVars, reqVars>>

\* match trace { Some(bytes) => Ok(DmaTrace {...}), None => Err(()) }
TraceFoundAlways(trace) == TRUE
TraceFound(trace) == trace.some

\* The handler returns Ok or Err and recv acknowledges; on Err the closure
\* of unwrap_or_else begins with println!.  The value is the #[repr(C)]
\* struct DmaTrace { duration, address, uses_ddma }, the bool one byte.
dma_retrieve_reply ==
    LET request == mailbox_receive("kernel") IN
    /\ recv("dma_retrieve")
    /\ IF IsType(request, "DmaRetrieveReply")
       THEN IF TraceFound(request.trace)
            THEN recv_return("dma_retrieve",
                     <<request.duration, request.trace.ptr,
                       IF request.uses_ddma THEN 1 ELSE 0>>)
            ELSE /\ send(Log("DMA trace called \"" \o kcall.name \o "\" not found\n"),
                         "dma_retrieve_not_found")
                 /\ UNCHANGED <<kres, kval>>
       ELSE recv_unexpected("dma_retrieve", request)
    /\ UNCHANGED <<kcall, nops, hostObs, hostSent, rtio_dma, cfg>>
    /\ UNCHANGED <<dmaVars, rpcVars>>

\* raise!("DMAError", "DMA trace not found") after the println!.
dma_retrieve_not_found ==
    /\ SendDone("dma_retrieve_not_found")
    /\ kpc' = "prog"
    /\ kres' = raise("dma_retrieve", "DMAError", "DMA trace not found")
    /\ kval' = <<0, 0, 0>>
    /\ UNCHANGED <<kcont, kcall, nops, mailbox, sent, hostObs, rcvd, hostSent,
                   rtio_dma, cfg>>
    /\ UNCHANGED <<dmaVars, rpcVars>>

\* The traces the comms CPU holds after the messages obs: DmaRecordStart
\* drops the trace of that name and opens a recording, DmaRecordStop stores
\* the recording under its name, DmaEraseRequest drops the trace.
RECURSIVE HostDma(_)
HostDma(obs) ==
    IF obs = <<>> THEN [name |-> "", traces |-> {}]
    ELSE LET h == HostDma(SubSeq(obs, 1, Len(obs) - 1))
             m == obs[Len(obs)]
         IN  CASE IsType(m, "DmaRecordStart") ->
                      [name |-> m.name, traces |-> {t \in h.traces : t.name # m.name}]
               [] IsType(m, "DmaRecordStop") ->
                      [name |-> "",
                       traces |-> h.traces \cup {[name |-> h.name, duration |-> m.duration,
                                                   uses_ddma |-> m.enable_ddma]}]
               [] IsType(m, "DmaEraseRequest") ->
                      [h EXCEPT !.traces = {t \in h.traces : t.name # m.name}]
               [] OTHER -> h

\* ------------------------------------------------------------ dma_playback
DmaStartRemoteRequest(id, timestamp) ==
    [type |-> "DmaStartRemoteRequest", id |-> id, timestamp |-> timestamp]
DmaAwaitRemoteReply(timeout, error, channel, timestamp) ==
    [type |-> "DmaAwaitRemoteReply", timeout |-> timeout, error |-> error,
     channel |-> channel, timestamp |-> timestamp]

\* error & 1, error & 2
Bit(x, n) == (x \div (2 ^ n)) % 2

\* The exception raised for a failed playback.
RTIOUnderflow(channel, timestamp) ==
    Exception("RTIOUnderflow", "RTIO underflow at channel {rtio_channel_info:0}, {1} mu",
              <<channel, timestamp, 0>>)
RTIODestinationUnreachable(channel, timestamp) ==
    Exception("RTIODestinationUnreachable",
              "RTIO destination unreachable, output, at channel {rtio_channel_info:0}, {1} mu",
              <<channel, timestamp, 0>>)

\* <<timestamp, ptr, uses_ddma>>
PlaybackArgs == {<<1000, 4096, FALSE>>, <<1000, 4096, TRUE>>, <<1000, 4100, TRUE>>}

dma_playback(timestamp, ptr, uses_ddma) ==
    /\ CallReq
    /\ kcall' = [NoCall EXCEPT !.fn = "dma_playback", !.args = <<timestamp, ptr>>,
                               !.uses_ddma = uses_ddma]
    /\ CASE cfg = "kernel_has_rtio_dma" ->
              IF ptr % 64 # 0
              THEN /\ panic_fmt("dma_playback", "assertion failed: ptr % 64 == 0")
                   /\ UNCHANGED <<rtio_dma, kval>>
              ELSE /\ rtio_dma' = [rtio_dma EXCEPT !.base_address = ptr,
                                                   !.time_offset = timestamp,
                                                   !.selected = 1,
                                                   !.enable = 1]
                   /\ kres' = Running("dma_playback")
                   /\ IF uses_ddma
                      THEN send(DmaStartRemoteRequest(ptr, timestamp), "dma_playback_wait")
                      ELSE /\ kpc' = "dma_playback_wait"
                           /\ UNCHANGED <<kcont, mailbox, sent>>
                   /\ UNCHANGED kval
         [] cfg = "has_rtio_dma" ->
              /\ kres' = Running("dma_playback")
              /\ send(DmaStartRemoteRequest(ptr, timestamp), "dma_playback_await")
              /\ UNCHANGED <<rtio_dma, kval>>
         [] cfg = "no_rtio_dma" ->
              /\ panic_fmt("dma_playback", "not implemented: not(kernel_has_rtio_dma)")
              /\ UNCHANGED <<rtio_dma, kval>>
    /\ UNCHANGED <<hostObs, rcvd, hostSent, cfg>>
    /\ UNCHANGED <<dmaVars, rpcVars>>

\* The DMA controller has played the trace: it clears enable and latches
\* the error of the first failed event.
rtio_dma_done(error, channel, timestamp) ==
    /\ rtio_dma.enable = 1
    /\ rtio_dma' = [rtio_dma EXCEPT !.enable = 0,
                                    !.error = error,
                                    !.error_channel = IF error # 0 THEN channel ELSE @,
                                    !.error_timestamp = IF error # 0 THEN timestamp ELSE @]
    /\ UNCHANGED <<kpc, kcont, kcall, kres, nops, mailbox, sent, hostObs,
                   kval, rcvd, hostSent, cfg>>
    /\ UNCHANGED <<dmaVars, rpcVars>>

\* `while csr::rtio_dma::enable_read() != 0 {}` is over (and so is the poll
\* of the send before it, when there was one): the CRI is switched back, the
\* error register is read and cleared, and the remote leg is awaited.
dma_playback_done ==
    /\ kpc = "dma_playback_wait" \/ SendDone("dma_playback_wait")
    /\ rtio_dma.enable = 0
    /\ rtio_dma' = [rtio_dma EXCEPT !.selected = 0, !.error = 0]
    /\ IF Bit(rtio_dma.error, 0) # 0
       THEN /\ kpc' = "prog"
            /\ kres' = raise("dma_playback", "RTIOUnderflow",
                             RTIOUnderflow(0, 0).message)
            /\ kval' = <<rtio_dma.error_channel, rtio_dma.error_timestamp, 0>>
            /\ UNCHANGED <<kcont, mailbox, sent>>
       ELSE IF Bit(rtio_dma.error, 1) # 0
       THEN /\ kpc' = "prog"
            /\ kres' = raise("dma_playback", "RTIODestinationUnreachable",
                             RTIODestinationUnreachable(0, 0).message)
            /\ kval' = <<rtio_dma.error_channel, rtio_dma.error_timestamp, 0>>
            /\ UNCHANGED <<kcont, mailbox, sent>>
       ELSE IF kcall.uses_ddma
       THEN /\ send([type |-> "DmaAwaitRemoteRequest", id |-> kcall.args[2]],
                    "dma_playback_await")
            /\ UNCHANGED <<kres, kval>>
       ELSE /\ kpc' = "prog"
            /\ kres' = Returned("dma_playback")
            /\ kval' = <<>>
            /\ UNCHANGED <<kcont, mailbox, sent>>
    /\ UNCHANGED <<kcall, nops, hostObs, rcvd, hostSent, cfg>>
    /\ UNCHANGED <<dmaVars, rpcVars>>

\* The handler of DmaAwaitRemoteReply: what it raises, NoException when it
\* falls through.
AwaitRemoteRaisedNoTimeout(reply) ==
    IF Bit(reply.error, 0) # 0 THEN RTIOUnderflow(reply.channel, reply.timestamp)
    ELSE IF Bit(reply.error, 1) # 0
    THEN RTIODestinationUnreachable(reply.channel, reply.timestamp)
    ELSE NoException
AwaitRemoteRaised(reply) ==
    IF reply.timeout
    THEN Exception("DMAError",
             "Error running DMA on satellite device, timed out waiting for results",
             <<0, 0, 0>>)
    ELSE IF Bit(reply.error, 0) # 0 THEN RTIOUnderflow(reply.channel, reply.timestamp)
    ELSE IF Bit(reply.error, 1) # 0
    THEN RTIODestinationUnreachable(reply.channel, reply.timestamp)
    ELSE NoException

dma_playback_await_reply ==
    LET request == mailbox_receive("kernel") IN
    /\ recv("dma_playback_await")
    /\ IF IsType(request, "DmaAwaitRemoteReply")
       THEN IF AwaitRemoteRaised(request) # NoException
            THEN recv_raise("dma_playback", AwaitRemoteRaised(request))
            ELSE recv_return("dma_playback", <<>>)
       ELSE recv_unexpected("dma_playback", request)
    /\ UNCHANGED <<kcall, nops, hostObs, hostSent, rtio_dma, cfg>>
    /\ UNCHANGED <<dmaVars, rpcVars>>

\* What the controller / the satellite can report.
DmaErrors == {0, 1, 2, 3}

\* -------------------------------------------------------- the host's replies
\* Exceptions the host can hand to the kernel.
Exceptions == {Exception("ValueError", "boom", <<1, 2, 3>>)}

SubkernelErrors ==
    {SubkernelError(SubkernelStatus(k)) : k \in SubkernelStatusKinds}
    \cup {SubkernelError([kind |-> "Exception", exception |-> e]) : e \in Exceptions}

\* Kernel messages the host answers with a message of its own.
IsRequest(m) ==
    \/ m.type \in {"CachePutRequest", "SubkernelAwaitFinishRequest", "SubkernelMsgRecvRequest",
                   "RpcRecvRequest", "DmaRetrieveRequest", "DmaAwaitRemoteRequest"}
    \/ IsType(m, "DmaStartRemoteRequest") /\ cfg = "has_rtio_dma"

\* The protocol's replies to a request.  The host asks for at most
\* MaxAllocs positive allocation sizes in one run.
Replies(m) ==
    LET Allocations == Cardinality({i \in 1..Len(hostSent) :
                           /\ IsType(hostSent[i], "RpcRecvReply")
                           /\ hostSent[i].result.alloc_size > 0})
    IN
    CASE IsType(m, "CachePutRequest") -> {CachePutReply(b) : b \in BOOLEAN}
      [] IsType(m, "SubkernelAwaitFinishRequest") ->
             {SubkernelAwaitFinishReply} \cup SubkernelErrors
      [] IsType(m, "SubkernelMsgRecvRequest") ->
             {SubkernelMsgRecvReply(c) : c \in 0..3} \cup SubkernelErrors
      [] IsType(m, "DmaRetrieveRequest") ->
             (LET found == {t \in HostDma(hostObs).traces : t.name = m.name} IN
              IF found = {} THEN {DmaRetrieveReply(None, 0, FALSE)}
              ELSE {DmaRetrieveReply([some |-> TRUE, ptr |-> 4096],
                                     t.duration, t.uses_ddma) : t \in found})
      [] m.type \in {"DmaStartRemoteRequest", "DmaAwaitRemoteRequest"} ->
             {DmaAwaitRemoteReply(t, e, 7, 2000) : t \in BOOLEAN, e \in DmaErrors}
      [] IsType(m, "RpcRecvRequest") ->
             {RpcRecvReply(Ok(0))}
             \cup {RpcRecvReply([ok |-> FALSE, alloc_size |-> 0, exception |-> e]) :
                      e \in Exceptions}
             \cup (IF Allocations < MaxAllocs THEN {RpcRecvReply(Ok(8))} ELSE {})

HostOwes ==
    /\ hostObs # <<>>
    /\ IsRequest(Last(hostObs))
    /\ Cardinality({i \in 1..Len(hostObs) : IsRequest(hostObs[i])}) > Len(hostSent)
    /\ mailbox = MailboxEmpty

host_publish(reply) ==
    /\ mailbox' = mailbox_send("host", reply)
    /\ hostSent' = Append(hostSent, reply)
    /\ UNCHANGED <<kpc, kcont, kcall, kres, nops, sent, hostObs, dmaVars, rpcVars,
                   kval, rcvd, rtio_dma, cfg>>

\* The comms CPU answers the request it has taken.
host_reply ==
    /\ HostOwes
    /\ \E reply \in Replies(Last(hostObs)) : host_publish(reply)

\* The comms CPU answers with a message that is no reply to the request (a
\* desynchronised host).
host_reply_wrong ==
    /\ HostOwes
    /\ host_publish(IF IsType(Last(hostObs), "CachePutRequest")
                    THEN SubkernelAwaitFinishReply
                    ELSE CacheGetReply(0))

\* ------------------------------------------- cache / subkernel specification
NextSub ==
    \/ \E a \in CachePutArgs : cache_put(a[1], a[2])
    \/ cache_put_reply
    \/ subkernel_await_finish(1, 10000)
    \/ subkernel_await_finish_reply
    \/ subkernel_await_message(1, 10000, "ii", 1, 2)
    \/ subkernel_await_message_reply
    \/ send_recv
    \/ recv_unexpected_halt
    \/ host_acknowledge
    \/ host_reply
    \/ host_reply_wrong

SpecSub == Init /\ [][NextSub]_vars

\* ------------------------------------------------------ abort, CPU traps
\* The stack guard page: STACK_GUARD_BASE is set by main from the image's
\* _sstack_guard, the size is board_misoc::pmp::STACK_GUARD_SIZE.
STACK_GUARD_BASE == 8192
STACK_GUARD_SIZE == 4096

\* <<cause, mtval>>
Traps == {<<"LoadFault", 8200>>, <<"StoreFault", 12288>>, <<"IllegalInstruction", 8200>>}

\* pub extern fn abort(): panic!("aborted")
abort ==
    /\ kpc = "prog"
    /\ panic_fmt("abort", "aborted")
    /\ UNCHANGED <<kcall, nops, hostObs>>
    /\ UNCHANGED <<dmaVars, rpcVars, reqVars>>

\* The trap handler: both of its paths end in panic!.
exception(cause, mtval) ==
    /\ kpc = "prog"
    /\ IF /\ cause \in {"LoadFault", "StoreFault"}
          /\ mtval >= STACK_GUARD_BASE
          /\ mtval < STACK_GUARD_BASE + STACK_GUARD_SIZE
       THEN panic_fmt("exception",
                cause \o " at PC in stack guard page; stack overflow in user kernel code?")
       ELSE panic_fmt("exception", cause \o " at PC, trap value")
    /\ UNCHANGED <<kcall, nops, hostObs>>
    /\ UNCHANGED <<dmaVars, rpcVars, reqVars>>

\* ------------------------------------ DMA retrieve / playback specification
\* The three builds of dma_playback: with the DMA controller on the kernel
\* CPU's bus (and DRTIO), on a satellite, and without DMA.
InitPlay ==
    /\ InitRuntime
    /\ typeinfo = NoTypeinfo
    /\ cfg \in {"kernel_has_rtio_dma", "has_rtio_dma", "no_rtio_dma"}

\* The program makes at most MaxCalls calls here, the recorder's included.
NextPlay ==
    \/ \E name \in Names : nops < MaxCalls /\ dma_record_start(name)
    \/ \E a \in StopArgs : nops < MaxCalls /\ dma_record_stop(a[1], a[2])
    \/ dma_record_stop_flushed
    \/ \E name \in Names : dma_erase(name)
    \/ \E name \in Names \cup {"missing"} : dma_retrieve(name)
    \/ dma_retrieve_reply
    \/ dma_retrieve_not_found
    \/ \E a \in PlaybackArgs : dma_playback(a[1], a[2], a[3])
    \/ \E e \in DmaErrors : rtio_dma_done(e, 7, 2000)
    \/ dma_playback_done
    \/ dma_playback_await_reply
    \/ send_recv
    \/ send_return
    \/ panic_fmt_message
    \/ panic_fmt_aborted
    \/ panic_fmt_halt
    \/ host_acknowledge
    \/ host_reply

SpecPlay == InitPlay /\ [][NextPlay]_vars

\* ----------------------------------------------------- fault specification
\* The program runs (outputs, erases) until it returns, aborts or traps.
NextFault ==
    \/ \E a \in OutputArgs : rtio_output(a[1], a[2])
    \/ \E name \in Names : dma_erase(name)
    \/ send_return
    \/ abort
    \/ \E t \in Traps : exception(t[1], t[2])
    \/ panic_fmt_message
    \/ panic_fmt_aborted
    \/ panic_fmt_halt
    \/ modinit_return
    \/ main_rpc_flush
    \/ main_run_finished
    \/ main_halt
    \/ host_acknowledge

SpecFault == Init /\ [][NextFault]_vars

\* ------------------------------------------------- rpc_recv specification
\* The program receives RPC results; the host answers every RpcRecvRequest
\* with an RpcRecvReply.  Both CPUs keep running: the kernel CPU executes
\* its busy-wait loops and the caller's loop, the comms CPU serves the
\* mailbox.
NextRecv ==
    \/ \E slot \in Slots : rpc_recv(slot)
    \/ rpc_recv_reply
    \/ send_recv
    \/ host_acknowledge
    \/ host_reply

SpecRecv ==
    /\ Init
    /\ [][NextRecv]_vars
    /\ WF_vars(RecvLoopOpen /\ \E slot \in Slots : rpc_recv(slot))
    /\ WF_vars(send_recv)
    /\ WF_vars(rpc_recv_reply)
    /\ WF_vars(host_acknowledge)
    /\ WF_vars(host_reply)

\* --------------------------------------------------------- claims C11 - C20
\* The variants a handler accepts, by entry point.
ExpectedReplies(fn) ==
    CASE fn = "cache_put" -> {"CachePutReply"}
      [] fn = "subkernel_await_finish" -> {"SubkernelAwaitFinishReply", "SubkernelError"}
      [] fn = "subkernel_await_message" -> {"SubkernelMsgRecvReply", "SubkernelError"}

\* C11: when a handler takes a message that is not of a variant it expects,
\* the kernel publishes exactly one Log naming the unexpected reply; from
\* then on it publishes nothing more, never runs the program again and ends
\* in the halt loop.
C11_UnexpectedHalts ==
    [][ /\ \A fn \in {"cache_put", "subkernel_await_finish", "subkernel_await_message"} :
             (recv(fn) /\ mailbox.msg.type \notin ExpectedReplies(fn))
             => /\ sent' = Append(sent, Log("unexpected reply: " \o mailbox.msg.type \o "\n"))
                /\ kres'.kind = "unexpected"
                /\ kpc' # "prog"
        /\ kres.kind = "unexpected"
             => /\ sent' = sent
                /\ kres' = kres
                /\ kpc' \in {"send", "halt"}
                /\ kpc = "halt" => kpc' = "halt" ]_vars

C11_Witness ==
    /\ kpc = "halt"
    /\ kres = Unexpected("subkernel_await_finish")
    /\ Last(sent) = Log("unexpected reply: CacheGetReply\n")
    /\ Last(hostObs) = Last(sent)
    /\ Len(sent) > 2

\* A caller's loop over rpc_recv is in progress / is over.
RecvLoopRunning == kres = Running("rpc_recv") \/ RecvLoopOpen
RecvLoopOver ==
    \/ kres = Returned("rpc_recv") /\ kval = <<0>>
    \/ kres.fn = "rpc_recv" /\ kres.kind = "raise"

\* C12: with a host that sends finitely many positive sizes and then Ok(0)
\* (or an exception), a caller's loop over receive_result ends; every
\* invocation publishes one RpcRecvRequest and takes one RpcRecvReply; a
\* reply Ok(n) returns n, and a reply Err(e) raises e with nothing returned
\* and nothing more published by that invocation.
C12_ReceiveLoop ==
    /\ [](Len(sent) = Len(rcvd) + (IF kres = Running("rpc_recv") THEN 1 ELSE 0))
    /\ [][ /\ \A slot \in Slots : rpc_recv(slot) =>
                 /\ sent' = Append(sent, RpcRecvRequest(slot))
                 /\ rcvd' = rcvd
           /\ rpc_recv_reply =>
                 /\ sent' = sent
                 /\ rcvd' = Append(rcvd, mailbox.msg)
                 /\ IsType(mailbox.msg, "RpcRecvReply")
                 /\ kpc' = "prog"
                 /\ mailbox.msg.result.ok =>
                        /\ kres' = Returned("rpc_recv")
                        /\ kval' = <<mailbox.msg.result.alloc_size>>
                 /\ ~mailbox.msg.result.ok =>
                        /\ kres' = raise("rpc_recv", mailbox.msg.result.exception.id,
                                         mailbox.msg.result.exception.message)
                        /\ kval' = mailbox.msg.result.exception.param
                        /\ ~RecvLoopOpen' ]_vars
    /\ RecvLoopRunning ~> RecvLoopOver

\* A loop of three invocations that returned 0, and a later invocation that
\* was ended by an exception.
C12_Witness ==
    /\ Len(rcvd) >= 4
    /\ rcvd[1] = RpcRecvReply(Ok(8))
    /\ rcvd[2] = RpcRecvReply(Ok(8))
    /\ rcvd[3] = RpcRecvReply(Ok(0))
    /\ nops = 2
    /\ Len(sent) = Len(rcvd)
    /\ ~Last(rcvd).result.ok
    /\ kres.kind = "raise"
    /\ kpc = "prog"

\* C13: await_message returns a count only for a reply SubkernelMsgRecvReply
\* whose count lies in [min, max], and then returns that count; for a reply
\* whose count is below min or above max it raises SubkernelError and
\* returns nothing.
C13_CountRange ==
    [][ subkernel_await_message_reply =>
          LET m == mailbox.msg
              min == kcall.args[1]
              max == kcall.args[2]
          IN  /\ kres'.kind = "return" =>
                    /\ IsType(m, "SubkernelMsgRecvReply")
                    /\ min <= m.count /\ m.count <= max
                    /\ kval' = <<m.count>>
              /\ (IsType(m, "SubkernelMsgRecvReply") /\ (m.count < min \/ m.count > max)) =>
                    /\ kres' = raise("subkernel_await_message", "SubkernelError",
                                     "Received less or more arguments than expected")
                    /\ kpc' = "prog" ]_vars

\* A count at max was returned, then a count above max raised.
C13_Witness ==
    /\ Len(rcvd) = 2
    /\ rcvd[1] = SubkernelMsgRecvReply(2)
    /\ rcvd[2] = SubkernelMsgRecvReply(3)
    /\ Len(sent) = 2
    /\ \A i \in 1..2 : IsType(sent[i], "SubkernelMsgRecvRequest")
    /\ kres = raise("subkernel_await_message", "SubkernelError",
                    "Received less or more arguments than expected")

\* C14: await_finish returns normally exactly when the reply is
\* SubkernelAwaitFinishReply.  A SubkernelError reply with one of the four
\* plain statuses raises SubkernelError with a message no other status
\* gives (Timeout: "Subkernel timed out"); with Exception(e) it raises e
\* itself.
C14_AwaitFinish ==
    [][ subkernel_await_finish_reply =>
          LET m == mailbox.msg
              fn == "subkernel_await_finish"
          IN  /\ kres' = Returned(fn) <=> IsType(m, "SubkernelAwaitFinishReply")
              /\ (IsType(m, "SubkernelError") /\ m.status.kind \in SubkernelStatusKinds) =>
                    /\ kres'.kind = "raise"
                    /\ kres'.exn = "SubkernelError"
                    /\ m.status.kind = "Timeout" => kres'.msg = "Subkernel timed out"
                    /\ \A k \in SubkernelStatusKinds \ {m.status.kind} :
                          kres'.msg # SubkernelStatusMessage(k)
              /\ (IsType(m, "SubkernelError") /\ m.status.kind = "Exception") =>
                    /\ kres' = raise(fn, m.status.exception.id, m.status.exception.message)
                    /\ kval' = m.status.exception.param ]_vars

C14_Witness ==
    /\ rcvd # <<>>
    /\ Last(rcvd) = SubkernelError(SubkernelStatus("Timeout"))
    /\ IsType(Last(sent), "SubkernelAwaitFinishRequest")
    /\ kres = raise("subkernel_await_finish", "SubkernelError", "Subkernel timed out")
    /\ kpc = "prog"

\* C15: a cache_put publishes one CachePutRequest and nothing else, and takes
\* one reply; on a CachePutReply it raises CacheError exactly when succeeded
\* is false and returns normally otherwise.
C15_CachePut ==
    [][ /\ \A key \in {a[1] : a \in CachePutArgs}, list \in {a[2] : a \in CachePutArgs} :
             cache_put(key, list) =>
              /\ sent' = Append(sent, CachePutRequest(key, list))
              /\ rcvd' = rcvd
        /\ (kres = Running("cache_put") /\ ~cache_put_reply) =>
              /\ sent' = sent
              /\ rcvd' = rcvd
              /\ kres' = kres
        /\ (cache_put_reply /\ IsType(mailbox.msg, "CachePutReply")) =>
              /\ sent' = sent
              /\ rcvd' = Append(rcvd, mailbox.msg)
              /\ kpc' = "prog"
              /\ kres' = raise("cache_put", "CacheError", "cannot put into a busy cache row")
                    <=> ~mailbox.msg.succeeded
              /\ kres' = Returned("cache_put") <=> mailbox.msg.succeeded ]_vars

\* Two puts on the same key: the first succeeded, the host refused the second.
C15_Witness ==
    /\ sent = <<CachePutRequest("k", <<1, 2, 3>>), CachePutRequest("k", <<4>>)>>
    /\ rcvd = <<CachePutReply(TRUE), CachePutReply(FALSE)>>
    /\ kres = raise("cache_put", "CacheError", "cannot put into a busy cache row")
    /\ kpc = "prog"

\* C16: a dma_retrieve whose reply carries no trace ends by raising DMAError
\* "DMA trace not found" and returns nothing; one whose reply carries a trace
\* returns that trace's duration, address and distributed flag and does not
\* raise.  The host replies without a trace exactly for the names it holds
\* no trace of.
C16_Retrieve ==
    /\ [][ (kres = Running("dma_retrieve") /\ kres' # kres) =>
             LET m == Last(rcvd') IN
             /\ IsType(m, "DmaRetrieveReply")
             /\ kpc' = "prog"
             /\ m.trace.some =>
                   /\ kres' = Returned("dma_retrieve")
                   /\ kval'[1] = m.duration
                   /\ kval'[2] = m.trace.ptr
                   /\ kval'[3] = 1 <=> m.uses_ddma
             /\ ~m.trace.some =>
                   kres' = raise("dma_retrieve", "DMAError", "DMA trace not found") ]_vars
    /\ [][ dma_retrieve_reply =>
             (mailbox.msg.trace.some <=>
                 \E t \in HostDma(hostObs).traces : t.name = kcall.name) ]_vars

\* A trace "seq1" is held by the host; the retrieve of "missing" raised.
C16_Witness ==
    /\ kres = raise("dma_retrieve", "DMAError", "DMA trace not found")
    /\ kcall.name = "missing"
    /\ Last(rcvd) = DmaRetrieveReply(None, 0, FALSE)
    /\ Last(sent) = Log("DMA trace called \"missing\" not found\n")
    /\ \E t \in HostDma(hostObs).traces : t.name = "seq1"
    /\ kpc = "prog"

\* C17 as stated: the DMA controller is never enabled by dma_playback while
\* the recorder's active flag is true.
C17_NoRecordingWhilePlaying ==
    ~(DMA_RECORDER.active /\ rtio_dma.enable = 1)

\* The three messages of a fault, and how many of them panic_fmt has
\* published at its position kcont.
FaultLogs == <<Log("panic at file:line:column"), Log(kres.msg), RunAborted>>
FaultStage ==
    CASE kcont = "panic_fmt_message" -> 1
      [] kcont = "panic_fmt_aborted" -> 2
      [] OTHER -> 3

\* C18: a fault (panic, abort, trap) publishes the location Log, the message
\* Log and RunAborted, in this order and with nothing in between; RunAborted
\* is published once, it is the last message of the run, RunFinished and
\* RpcFlush are never published in a run that faulted, and the program never
\* runs again.
C18_FaultSequence ==
    /\ [](kres.kind = "panic" =>
            /\ Len(sent) >= FaultStage
            /\ SubSeq(sent, Len(sent) - FaultStage + 1, Len(sent))
                 = SubSeq(FaultLogs, 1, FaultStage)
            /\ kpc \in {"send", "halt"}
            /\ kpc = "halt" => FaultStage = 3
            /\ \A i \in 1..Len(sent) :
                  /\ sent[i] # RunFinished
                  /\ sent[i] # RpcFlush
                  /\ sent[i] = RunAborted => i = Len(sent))
    /\ [](kres.kind # "panic" => \A i \in 1..Len(sent) : sent[i] # RunAborted)
    /\ [][ /\ (abort \/ \E t \in Traps : exception(t[1], t[2])) =>
                /\ kres'.kind = "panic"
                /\ sent' = Append(sent, Log("panic at file:line:column"))
           /\ kres.kind = "panic" =>
                /\ kres' = kres
                /\ sent # <<>> /\ Last(sent) = RunAborted => sent' = sent ]_vars

\* A trap in the stack guard page after the program had published a message:
\* the three fault messages were published and taken, and the core halted.
C18_Witness ==
    /\ kpc = "halt"
    /\ kres = Panicked("exception",
           "LoadFault at PC in stack guard page; stack overflow in user kernel code?")
    /\ Len(sent) = 4
    /\ IsType(sent[1], "DmaEraseRequest")
    /\ SubSeq(sent, 2, 4) = FaultLogs
    /\ hostObs = sent

\* C19: on a DmaAwaitRemoteReply playback raises DMAError when timeout is
\* set; otherwise RTIOUnderflow with (channel, timestamp) when error bit 0 is
\* set; otherwise RTIODestinationUnreachable with (channel, timestamp) when
\* error bit 1 is set; it returns normally exactly when timeout is false and
\* both bits are clear.  On a satellite a playback publishes
\* DmaStartRemoteRequest alone, takes one DmaAwaitRemoteReply and leaves the
\* DMA controller alone.
C19_AwaitRemote ==
    [][ /\ (dma_playback_await_reply /\ IsType(mailbox.msg, "DmaAwaitRemoteReply")) =>
             LET m == mailbox.msg
                 bit0 == m.error % 2 = 1
                 bit1 == (m.error \div 2) % 2 = 1
             IN  /\ kres'.fn = "dma_playback"
                 /\ kpc' = "prog"
                 /\ m.timeout => kres'.kind = "raise" /\ kres'.exn = "DMAError"
                 /\ (~m.timeout /\ bit0) =>
                       /\ kres'.kind = "raise" /\ kres'.exn = "RTIOUnderflow"
                       /\ kval' = <<m.channel, m.timestamp, 0>>
                 /\ (~m.timeout /\ ~bit0 /\ bit1) =>
                       /\ kres'.kind = "raise" /\ kres'.exn = "RTIODestinationUnreachable"
                       /\ kval' = <<m.channel, m.timestamp, 0>>
                 /\ kres'.kind = "return" <=> (~m.timeout /\ ~bit0 /\ ~bit1)
        /\ cfg = "has_rtio_dma" =>
             /\ rtio_dma' = rtio_dma
             /\ \A a \in PlaybackArgs : dma_playback(a[1], a[2], a[3]) =>
                   /\ sent' = Append(sent, DmaStartRemoteRequest(a[2], a[1]))
                   /\ kres' = Running("dma_playback")
             /\ (kres = Running("dma_playback") /\ ~dma_playback_await_reply) =>
                   /\ sent' = sent
                   /\ rcvd' = rcvd
                   /\ kres' = kres ]_vars

\* On a satellite, a playback whose reply had only error bit 1 set.
C19_Witness ==
    /\ cfg = "has_rtio_dma"
    /\ sent = <<DmaStartRemoteRequest(4096, 1000)>>
    /\ rcvd = <<DmaAwaitRemoteReply(FALSE, 2, 7, 2000)>>
    /\ kres = raise("dma_playback", "RTIODestinationUnreachable",
                    RTIODestinationUnreachable(0, 0).message)
    /\ kval = <<7, 2000, 0>>
    /\ kpc = "prog"

\* The (type, object, attribute) index triples of the typeinfo table whose
\* attribute has a non-empty tag, and their place in table order.
TaggedTriples ==
    UNION { { <<t, o, a>> : o \in 1..Len(typeinfo.types[t].objects),
                            a \in { i \in 1..Len(typeinfo.types[t].attributes) :
                                      typeinfo.types[t].attributes[i].tag # "" } } :
            t \in 1..Len(typeinfo.types) }
TripleBefore(x, y) ==
    \/ x[1] < y[1]
    \/ x[1] = y[1] /\ x[2] < y[2]
    \/ x[1] = y[1] /\ x[2] = y[2] /\ x[3] < y[3]
TripleRank(x) == 1 + Cardinality({y \in TaggedTriples : TripleBefore(y, x)})

\* The calls of service 0 submitted so far.
WritebackPosts == SelectSeq(posted, LAMBDA c : c.call.service = 0)

\* C20: the write-back calls submitted so far are, in table order (type,
\* then object, then attribute), the first of the triples with a non-empty
\* tag, one asynchronous call of service 0 each, carrying the object, the
\* attribute's name and the field's address; none is submitted without a
\* typeinfo table; when RpcFlush is published every such triple has its call.
C20_Writeback ==
    /\ ~typeinfo.exported => WritebackPosts = <<>>
    /\ Len(WritebackPosts) <= Cardinality(TaggedTriples)
    /\ \A x \in TaggedTriples :
          TripleRank(x) <= Len(WritebackPosts) =>
             LET c == WritebackPosts[TripleRank(x)]
                 ty == typeinfo.types[x[1]]
                 object == ty.objects[x[2]]
                 attribute == ty.attributes[x[3]]
             IN  /\ c.async
                 /\ c.call.tag = attribute.tag
                 /\ c.call.data = <<object, attribute.name, object + attribute.offset>>
    /\ (\E i \in 1..Len(sent) : sent[i] = RpcFlush) =>
          Len(WritebackPosts) = Cardinality(TaggedTriples)

\* The table of three types: four calls were submitted, RpcFlush is out.
C20_Witness ==
    /\ Len(typeinfo.types) = 3
    /\ Len(WritebackPosts) = 4
    /\ WritebackPosts[2].call.data = <<100, "z", 108>>
    /\ WritebackPosts[4].call.data = <<500, "w", 500>>
    /\ sent # <<>>
    /\ Last(sent) = RpcFlush
    /\ Len(posted) > 4

\* --------------------------------------------------------- claims C21 - C23
\* C21: whenever recv has consumed a host reply and control goes back to the
\* program, by the handler's return or by its raise, the mailbox has been
\* acknowledged.
C21_Acknowledged ==
    [][ \A fn \in {"rpc_recv", "cache_put", "dma_retrieve", "dma_playback_await",
                   "subkernel_await_finish", "subkernel_await_message"} :
            (recv(fn) /\ kpc' = "prog") => mailbox' = MailboxEmpty
      ]_vars

\* C22: a record_stop called while the recorder is not active (it ends by
\* raising DMAError) publishes no message, DmaRecordAppend included, and
\* leaves data_len and active as they were, from the call to the raise.
C22_FailedStopSilent ==
    [][ /\ \A a \in StopArgs :
              (~DMA_RECORDER.active /\ dma_record_stop(a[1], a[2])) =>
                  /\ sent' = sent
                  /\ DMA_RECORDER'.data_len = DMA_RECORDER.data_len
                  /\ DMA_RECORDER'.active = DMA_RECORDER.active
        /\ (~DMA_RECORDER.active /\ dma_record_stop_flushed) =>
              /\ sent' = sent
              /\ DMA_RECORDER'.data_len = DMA_RECORDER.data_len
              /\ DMA_RECORDER'.active = DMA_RECORDER.active
      ]_vars

\* C23: with the DMA controller on the kernel CPU's bus, whenever control is
\* back in the program every DmaStartRemoteRequest published so far has been
\* followed by a DmaAwaitRemoteRequest of the same id, and a
\* DmaAwaitRemoteReply was consumed for each, whatever the controller
\* reported.
C23_RemoteAwaited ==
    LET IsStart(m) == IsType(m, "DmaStartRemoteRequest")
        IsAwait(m) == IsType(m, "DmaAwaitRemoteRequest")
        IsAwaitReply(m) == IsType(m, "DmaAwaitRemoteReply")
        starts == SelectSeq(sent, IsStart)
        awaits == SelectSeq(sent, IsAwait)
    IN  (cfg = "kernel_has_rtio_dma" /\ kpc = "prog") =>
           /\ Len(awaits) = Len(starts)
           /\ \A i \in 1..Len(starts) : awaits[i].id = starts[i].id
           /\ Len(SelectSeq(rcvd, IsAwaitReply)) = Len(starts)

====
